---- MODULE Spec2Model ----
(***************************************************************************)
(* CineMatch: the item-based collaborative filter (recommender.py) and the *)
(* Flask catalog/recommendation routes (app.py).                           *)
(*                                                                         *)
(* Representation.  A Python str is a tuple of one-character strings, so   *)
(* that lower(), strip(), substring search, int() and float() are computed *)
(* and not assumed.  Ratings are integers in half points (5.0 is 10),      *)
(* average ratings in hundredths, cosine similarities in 1/SimScale,       *)
(* predictions in 1/PredScale of a half point.  Python positions are       *)
(* 0-based, sequence positions here are 1-based.                           *)
(***************************************************************************)
EXTENDS Integers, Sequences, FiniteSets, TLC

VARIABLES
    rec_engine,     \* app.py:17, the ItemCFRecommender instance
    rng,            \* the draw of default_rng(42).choice for each sample size
    ALL_MOVIES,     \* app.py:20
    SAMPLE_CACHE,   \* app.py:21
    lru,            \* the lru_cache of slice_page, least recently used first
    resp,           \* the response of the last request served
    call,           \* the last call of recommend_for_new_user, with its locals
    yf,             \* the last application of safe_year_filter
    th,             \* the request threads inside get_sample
    built           \* how many times each cached list was constructed

vars == <<rec_engine, rng, ALL_MOVIES, SAMPLE_CACHE, lru, resp, call, yf, th, built>>

(***************************************************************************)
(* Bounds of the model.                                                    *)
(***************************************************************************)
MaxList == 3        \* longest rating list passed to recommend_for_new_user
MaxTopN == 3        \* largest top_n passed to recommend_for_new_user
MaxMinRated == 3    \* largest min_rated passed to recommend_for_new_user
SimScale == 100     \* a cosine similarity s is the integer floor(s * SimScale)
PredScale == 100    \* a prediction p (in half points) is floor(p * PredScale)

(***************************************************************************)
(* Python str, int and float on tuples of characters.                      *)
(***************************************************************************)
Min(a, b) == IF a <= b THEN a ELSE b
Max(a, b) == IF a >= b THEN a ELSE b
Abs(a) == IF a < 0 THEN -a ELSE a
Range(s) == {s[i] : i \in DOMAIN s}

\* The characters of the model in code-point order.
CodePoints == <<" ", "+", "-", ".", "/", "0", "1", "2", "3", "4", "5", "6",
                "7", "8", "9", "<", "=", ">", "A", "B", "C", "D", "O", "T",
                "a", "b", "c", "d", "e", "f", "g", "h", "i", "l", "n", "o",
                "p", "r", "s", "t", "x", "y">>
Ord(c) == CHOOSE i \in DOMAIN CodePoints : CodePoints[i] = c

Digits == <<"0", "1", "2", "3", "4", "5", "6", "7", "8", "9">>
IsDigit(c) == c \in Range(Digits)
DigitVal(c) == (CHOOSE i \in DOMAIN Digits : Digits[i] = c) - 1
IsSpace(c) == c = " "

UpperToLower == [A |-> "a", B |-> "b", C |-> "c", D |-> "d", O |-> "o", T |-> "t"]
LowerChar(c) == IF c \in DOMAIN UpperToLower THEN UpperToLower[c] ELSE c
\* str.lower()
Lower(s) == [i \in DOMAIN s |-> LowerChar(s[i])]

SetMin(S) == CHOOSE i \in S : \A j \in S : i <= j
SetMax(S) == CHOOSE i \in S : \A j \in S : i >= j

\* s without what precedes and follows the positions `keep`
Trim(s, keep) == IF keep = {} THEN <<>> ELSE SubSeq(s, SetMin(keep), SetMax(keep))

\* str.strip()
Strip(s) == Trim(s, {i \in DOMAIN s : ~IsSpace(s[i])})

\* str.startswith(prefix)
StartsWith(s, prefix) ==
    /\ Len(prefix) <= Len(s)
    /\ SubSeq(s, 1, Len(prefix)) = prefix

\* sub in s
Contains(sub, s) ==
    \E i \in 0..(Len(s) - Len(sub)) : SubSeq(s, i + 1, i + Len(sub)) = sub

\* s[k:] for k >= 0
Drop(s, k) == SubSeq(s, k + 1, Len(s))

\* str.isdigit()
IsDigitStr(s) == Len(s) > 0 /\ \A i \in DOMAIN s : IsDigit(s[i])

\* a < b on str: lexicographic by code point, a proper prefix is smaller
StrLess(a, b) ==
    \E k \in 1..(Min(Len(a), Len(b)) + 1) :
        /\ \A i \in 1..(k - 1) : a[i] = b[i]
        /\ \/ k > Len(a) /\ k <= Len(b)
           \/ k <= Len(a) /\ k <= Len(b) /\ Ord(a[k]) < Ord(b[k])

RECURSIVE DigitsVal(_)
DigitsVal(s) ==
    IF s = <<>> THEN 0
    ELSE 10 * DigitsVal(SubSeq(s, 1, Len(s) - 1)) + DigitVal(s[Len(s)])

Raised == [ok |-> FALSE, val |-> 0]
Value(v) == [ok |-> TRUE, val |-> v]

\* the value of a sign character applied to the outcome of a conversion
WithSign(sign, r) == IF r.ok /\ sign = "-" THEN Value(-r.val) ELSE r

\* int() of an unsigned text: digits only, at least one
UnsignedInt(b) == IF IsDigitStr(b) THEN Value(DigitsVal(b)) ELSE Raised

\* int() of a stripped text with its optional sign
SignedInt(t) ==
    IF t # <<>> /\ t[1] \in {"-", "+"}
    THEN WithSign(t[1], UnsignedInt(Drop(t, 1)))
    ELSE UnsignedInt(t)

PyInt(s) == SignedInt(Strip(s))

\* int(float(.)) of the text whole.frac: truncation toward zero
Truncated(whole, frac) ==
    IF /\ \A i \in DOMAIN whole : IsDigit(whole[i])
       /\ \A i \in DOMAIN frac : IsDigit(frac[i])
       /\ Len(whole) + Len(frac) > 0
    THEN Value(DigitsVal(whole))
    ELSE Raised

\* int(float(.)) of an unsigned text, `dots` being the positions of "."
SplitAtPoint(b, dots) ==
    IF dots = {} THEN Truncated(b, <<>>)
    ELSE IF Cardinality(dots) > 1 THEN Raised
    ELSE Truncated(SubSeq(b, 1, SetMin(dots) - 1), Drop(b, SetMin(dots)))

UnsignedIntFloat(b) == SplitAtPoint(b, {i \in DOMAIN b : b[i] = "."})

\* int(float(s)) for a str: float() takes whitespace, a sign, digits and
\* one optional point with digits on at least one side; int() truncates
\* toward zero.  "nan" and "inf" are floats that int() refuses; any other
\* text makes float() raise.  Both ways the caller sees an exception.
SignedIntFloat(t) ==
    IF t # <<>> /\ t[1] \in {"-", "+"}
    THEN WithSign(t[1], UnsignedIntFloat(Drop(t, 1)))
    ELSE UnsignedIntFloat(t)

PyIntFloat(s) == SignedIntFloat(Strip(s))

(***************************************************************************)
(* The data files: data/ml-25m/ratings.csv and movies_with_posters.csv.    *)
(* A rating row is <<userId, movieId, rating>>; a missing cell of the      *)
(* movie file is the empty str (fillna("")).                               *)
(***************************************************************************)
http == <<"h", "t", "t", "p">>
ftp == <<"f", "t", "p">>

MoviesCsv ==
    << [movieId |-> 10, title |-> <<"B", "b">>, year |-> <<"1", "9", "9", "9">>,
        genres |-> <<"D", "r">>, posterUrl |-> http \o <<"/", "a">>],
       [movieId |-> 20, title |-> <<"a", "b">>, year |-> <<"2", "0", "0", "0", ".", "0">>,
        genres |-> <<"C", "o">>, posterUrl |-> http \o <<"/", "b">>],
       [movieId |-> 30, title |-> <<"C", "a">>, year |-> <<"n", "/", "a">>,
        genres |-> <<"D", "r">>, posterUrl |-> http \o <<"/", "c">>],
       [movieId |-> 40, title |-> <<"D", "d">>, year |-> <<"2", "0", "0", "1">>,
        genres |-> <<"C", "o">>, posterUrl |-> ftp],
       [movieId |-> 50, title |-> <<"e">>, year |-> <<"1", "9", "9", "0">>,
        genres |-> <<"D", "r">>, posterUrl |-> http],
       [movieId |-> 60, title |-> <<" ", " ">>, year |-> <<"1", "9", "9", "0">>,
        genres |-> <<"D", "r">>, posterUrl |-> http],
       [movieId |-> 70, title |-> <<"f">>, year |-> <<>>,
        genres |-> <<"D", "r">>, posterUrl |-> http] >>

\* Rating files.  In RatingsA items 10 and 20 are rated by the same users
\* (cosine 1) and share no user with 30 and 40 (cosine 0).
RatingsA == << <<1, 10, 10>>, <<1, 20, 10>>, <<2, 10, 6>>, <<2, 20, 6>>,
               <<3, 30, 9>>, <<3, 40, 4>> >>
RatingsB == << <<1, 10, 10>>, <<1, 20, 6>>, <<1, 30, 8>>, <<2, 20, 8>>,
               <<2, 40, 2>>, <<2, 10, 1>> >>
RatingsC == << <<1, 10, 10>>, <<2, 20, 8>>, <<2, 30, 8>>, <<1, 30, 2>> >>
RatingsD == << <<1, 20, 7>>, <<2, 20, 8>>, <<2, 20, 1>> >>
RatingsE == << <<1, 10, 8>>, <<2, 20, 8>>, <<3, 30, 8>>, <<4, 40, 8>> >>

RatingFiles == {RatingsA, RatingsB, RatingsC, RatingsD, RatingsE}

(***************************************************************************)
(* recommender.py: construction of the engine.                             *)
(***************************************************************************)
PLACEHOLDER_URL == <<"/", "p">>

\* np.sort of a set of integers
RECURSIVE SortedSeq(_)
SortedSeq(S) ==
    IF S = {} THEN <<>>
    ELSE LET m == CHOOSE x \in S : \A y \in S : x <= y
         IN  <<m>> \o SortedSeq(S \ {m})

RECURSIVE SumSeq(_)
SumSeq(s) == IF s = <<>> THEN 0 ELSE s[1] + SumSeq(Tail(s))

\* _load_movies: the rows with a title, a year, genres and an http poster
_load_movies(csv) ==
    LET Valid(row) ==
            /\ Strip(row.title) # <<>>
            /\ Strip(row.year) # <<>>
            /\ Strip(row.genres) # <<>>
            /\ StartsWith(row.posterUrl, http)
    IN  SelectSeq(csv, Valid)

\* round(num / den, 0) with ties to the even integer (numpy .round), num >= 0
RoundHalfEven(num, den) ==
    LET q == num \div den
        r2 == 2 * (num % den)
    IN  IF r2 < den THEN q
        ELSE IF r2 > den THEN q + 1
        ELSE IF q % 2 = 0 THEN q ELSE q + 1

\* ItemCFRecommender.__init__
ItemCFRecommender(ratings, csv) ==
    LET movies_df == _load_movies(csv)
        movie_ids == SortedSeq({ratings[k][2] : k \in DOMAIN ratings})
        id2idx == [mid \in Range(movie_ids) |->
                      CHOOSE i \in DOMAIN movie_ids : movie_ids[i] = mid]
        idx2id == [i \in DOMAIN movie_ids |-> movie_ids[i]]
        n_users == CHOOSE u \in {ratings[k][1] : k \in DOMAIN ratings} :
                       \A k \in DOMAIN ratings : ratings[k][1] <= u
        \* csr_matrix((vals, (rows, cols))): entries of one cell are summed
        Cell(u, i) ==
            LET Hit(row) == row[1] = u /\ row[2] = movie_ids[i]
                hits == SelectSeq(ratings, Hit)
            IN  SumSeq([k \in DOMAIN hits |-> hits[k][3]])
        RatingsOf(mid) ==
            LET Hit(row) == row[2] = mid
                hits == SelectSeq(ratings, Hit)
            IN  [k \in DOMAIN hits |-> hits[k][3]]
    IN  [ movie_ids  |-> movie_ids,
          id2idx     |-> id2idx,
          idx2id     |-> idx2id,
          user_item  |-> [u \in 1..n_users |-> [i \in DOMAIN movie_ids |-> Cell(u, i)]],
          \* movies.set_index("movieId")
          movies     |-> [mid \in {movies_df[k].movieId : k \in DOMAIN movies_df} |->
                             LET k == CHOOSE k \in DOMAIN movies_df :
                                          movies_df[k].movieId = mid
                             IN  movies_df[k]],
          \* groupby("movieId")["rating"].mean().round(2), in hundredths
          avg_rating |-> [mid \in Range(movie_ids) |->
                             RoundHalfEven(50 * SumSeq(RatingsOf(mid)),
                                           Len(RatingsOf(mid)))] ]

\* _meta_for(movie_ids, scores): the items of the ids that have metadata;
\* scores = <<>> stands for scores=None
_meta_for(eng, movie_ids, scores) ==
    LET Item(i) ==
            LET mid == movie_ids[i]
                meta == eng.movies[mid]
                item == [ movieId   |-> mid,
                          title     |-> meta.title,
                          year      |-> meta.year,
                          genres    |-> meta.genres,
                          avgRating |-> IF mid \in DOMAIN eng.avg_rating
                                        THEN eng.avg_rating[mid] ELSE 0,
                          posterUrl |-> IF meta.posterUrl # <<>>
                                        THEN meta.posterUrl ELSE PLACEHOLDER_URL,
                          score     |-> IF scores = <<>> THEN <<>> ELSE scores[i] ]
            IN  item
        Known(i) == movie_ids[i] \in DOMAIN eng.movies
        kept == SelectSeq([i \in DOMAIN movie_ids |-> i], Known)
    IN  [k \in DOMAIN kept |-> Item(kept[k])]

\* all_movies
all_movies(eng) == _meta_for(eng, eng.movie_ids, <<>>)

\* sample_movies(n): ids = rng.choice(movie_ids, size=n, replace=False) with
\* the fixed seed 42; `draw` is that draw.  Raises when n exceeds the catalog.
sample_movies(eng, draw) == _meta_for(eng, draw, <<>>)

(***************************************************************************)
(* recommender.py: recommend_for_new_user.                                 *)
(***************************************************************************)
RECURSIVE Bisect(_, _, _)
\* the k in lo..hi with k*k <= x < (k+1)*(k+1), given lo*lo <= x < (hi+1)*(hi+1)
Bisect(x, lo, hi) ==
    IF lo = hi THEN lo
    ELSE LET mid == (lo + hi + 1) \div 2
         IN  IF mid * mid <= x THEN Bisect(x, mid, hi) ELSE Bisect(x, lo, mid - 1)

\* floor(sqrt(x)) for 0 <= x <= SimScale^2
ISqrt(x) == Bisect(x, 0, SimScale)

\* cosine_similarity(user_item.T[i], user_item.T)[j], in 1/SimScale; a
\* column of norm 0 has similarity 0 with everything (sklearn normalize)
Cosine(eng, i, j) ==
    LET users == DOMAIN eng.user_item
        Col(c) == [u \in users |-> eng.user_item[u][c]]
        Dot(a, b) == SumSeq([u \in users |-> a[u] * b[u]])
        d == Dot(Col(i), Col(j))
        ni == Dot(Col(i), Col(i))
        nj == Dot(Col(j), Col(j))
    IN  IF ni = 0 \/ nj = 0 THEN 0
        ELSE ISqrt((SimScale * SimScale * d * d) \div (ni * nj))

\* the pairs of rating_list whose movieId is in id2idx (lines 71-72)
KnownPairs(eng, rating_list) ==
    LET Known(pair) == pair.movieId \in DOMAIN eng.id2idx
    IN  SelectSeq(rating_list, Known)

\* scores after the loop of lines 69-80
Scores(eng, rating_list) ==
    LET known == KnownPairs(eng, rating_list)
    IN  [j \in DOMAIN eng.movie_ids |->
            SumSeq([k \in DOMAIN known |->
                Cosine(eng, eng.id2idx[known[k].movieId], j) * known[k].rating])]

\* sim_sums after the loop of lines 69-80
SimSums(eng, rating_list) ==
    LET known == KnownPairs(eng, rating_list)
    IN  [j \in DOMAIN eng.movie_ids |->
            SumSeq([k \in DOMAIN known |->
                Abs(Cosine(eng, eng.id2idx[known[k].movieId], j))])]

\* float values: a finite number (in 1/PredScale of a half point), -inf, nan
Num(v) == [kind |-> "num", v |-> v]
NegInf == [kind |-> "-inf", v |-> 0]
NaN == [kind |-> "nan", v |-> 0]

\* np.divide without out= and where=: 0/0 is nan
DivideUnguarded(scores, sim_sums) ==
    [j \in DOMAIN scores |->
        IF sim_sums[j] # 0 THEN Num((scores[j] * PredScale) \div sim_sums[j])
        ELSE NaN]

\* np.divide(scores, sim_sums, out=zeros, where=sim_sums != 0)
Divide(scores, sim_sums) ==
    [j \in DOMAIN scores |->
        IF sim_sums[j] # 0 THEN Num((scores[j] * PredScale) \div sim_sums[j])
        ELSE Num(0)]

\* rated_idx (lines 87-88)
RatedIdx(eng, rating_list) ==
    {eng.id2idx[rating_list[k].movieId] :
        k \in {k \in DOMAIN rating_list : rating_list[k].movieId \in DOMAIN eng.id2idx}}

\* preds[list(rated_idx)] = -np.inf
Exclude(preds, rated_idx) ==
    [j \in DOMAIN preds |-> IF j \in rated_idx THEN NegInf ELSE preds[j]]

\* a <= b on floats; numpy sorts nan after every number
FloatLeq(a, b) ==
    \/ b.kind = "nan"
    \/ a.kind = "-inf" /\ b.kind # "nan"
    \/ a.kind = "num" /\ b.kind = "num" /\ a.v <= b.v

IndexOrders(n) ==
    {p \in [1..n -> 1..n] : \A a, b \in 1..n : a # b => p[a] # p[b]}

\* np.argsort(preds): kind="quicksort" is not stable, so any index order
\* that puts the values in ascending order can come out
Argsort(preds) ==
    {p \in IndexOrders(Len(preds)) :
        \A a \in 1..(Len(preds) - 1) : FloatLeq(preds[p[a]], preds[p[a + 1]])}

Reverse(s) == [i \in DOMAIN s |-> s[Len(s) + 1 - i]]

\* s[k:] for any integer k (Python slice: a negative k counts from the end)
SliceFrom(s, k) ==
    LET lo == IF k < 0 THEN Max(Len(s) + k, 0) ELSE Min(k, Len(s))
    IN  SubSeq(s, lo + 1, Len(s))

\* np.argsort(preds)[-top_n:] without the [::-1]
TopIdxAscending(order, top_n) == SliceFrom(order, -top_n)

\* np.argsort(preds)[-top_n:][::-1], `order` being the argsort
TopIdx(order, top_n) == Reverse(SliceFrom(order, -top_n))

\* the test of line 63 made on the pairs left after dropping unknown ids
TooFewKnown(eng, rating_list, min_rated) ==
    Len(KnownPairs(eng, rating_list)) < min_rated

\* line 63: len(rating_list) < min_rated
TooFew(eng, rating_list, min_rated) == Len(rating_list) < min_rated

NoCall == [ rating_list |-> <<>>, top_n |-> 0, min_rated |-> 0, raised |-> "",
            sim_sums |-> <<>>, quotient |-> <<>>, preds |-> <<>>,
            top_idx |-> <<>>, result |-> <<>> ]

\* recommend_for_new_user, its locals and its outcome; `order` is the
\* output of np.argsort
recommend_for_new_user(eng, rating_list, top_n, min_rated, order) ==
    IF TooFew(eng, rating_list, min_rated)
    THEN [NoCall EXCEPT !.rating_list = rating_list, !.top_n = top_n,
                        !.min_rated = min_rated, !.raised = "ValueError"]
    ELSE
        LET sim_sums == SimSums(eng, rating_list)
            quotient == Divide(Scores(eng, rating_list), sim_sums)
            preds == Exclude(quotient, RatedIdx(eng, rating_list))
            top_idx == TopIdx(order, top_n)
            top_ids == [k \in DOMAIN top_idx |-> eng.idx2id[top_idx[k]]]
        IN  [ rating_list |-> rating_list, top_n |-> top_n,
              min_rated |-> min_rated, raised |-> "none",
              sim_sums |-> sim_sums, quotient |-> quotient, preds |-> preds,
              top_idx |-> top_idx,
              result |-> _meta_for(eng, top_ids,
                                   [k \in DOMAIN top_idx |-> preds[top_idx[k]]]) ]

\* preds after line 89
Preds(eng, rating_list) ==
    Exclude(Divide(Scores(eng, rating_list), SimSums(eng, rating_list)),
            RatedIdx(eng, rating_list))

(***************************************************************************)
(* app.py: get_sample and slice_page.  A Python list is an object: the     *)
(* name `movies` of slice_page refers either to the list held in           *)
(* ALL_MOVIES, to one held in SAMPLE_CACHE, or to a new list made by a     *)
(* filter.  A reference says which.                                        *)
(***************************************************************************)
all == <<"a", "l", "l">>
older == <<"o", "l", "d", "e", "r">>
rating == <<"r", "a", "t", "i", "n", "g">>
year == <<"y", "e", "a", "r">>
title == <<"t", "i", "t", "l", "e">>
asc == <<"a", "s", "c">>
desc == <<"d", "e", "s", "c">>

RefAll == [kind |-> "ALL_MOVIES", k |-> 0]
RefSample(k) == [kind |-> "SAMPLE_CACHE", k |-> k]
RefNew == [kind |-> "new", k |-> 0]

\* the list a reference names; `fresh` is the new list, if there is one
Deref(ALLM, SC, ref, fresh) ==
    IF ref.kind = "new" THEN fresh
    ELSE IF ref.kind = "ALL_MOVIES" THEN ALLM
    ELSE SC[ref.k]

\* lines 31-34 of get_sample, k being the outcome of int(sample).  `draws`
\* gives the ids rng.choice draws for a size; a size it has no draw for
\* makes rng.choice raise ValueError.
get_sample_of_size(eng, draws, ALLM, SC, k) ==
    IF ~k.ok
    THEN [raised |-> TRUE, ref |-> RefNew, SC |-> SC, ALLM |-> ALLM]
    ELSE IF k.val \in DOMAIN SC
    THEN [raised |-> FALSE, ref |-> RefSample(k.val), SC |-> SC, ALLM |-> ALLM]
    ELSE IF k.val \notin DOMAIN draws
    THEN [raised |-> TRUE, ref |-> RefNew, SC |-> SC, ALLM |-> ALLM]
    ELSE [ raised |-> FALSE, ref |-> RefSample(k.val), ALLM |-> ALLM,
           SC |-> SC @@ (k.val :> sample_movies(eng, draws[k.val])) ]

\* get_sample(sample) run without interruption: the caches after it and
\* the list returned
get_sample(eng, draws, ALLM, SC, sample) ==
    IF sample = all
    THEN [ raised |-> FALSE, ref |-> RefAll, SC |-> SC,
           ALLM |-> IF ALLM = <<>> THEN all_movies(eng) ELSE ALLM ]
    ELSE get_sample_of_size(eng, draws, ALLM, SC, PyInt(sample))

\* y >= int(.) and y <= int(.), b being the outcome of int(year_q[2:])
AtLeast(y, b) == b.ok /\ y >= b.val
AtMost(y, b) == b.ok /\ y <= b.val
Above(y, b) == b.ok /\ y > b.val

\* the tests of lines 53-60 on the parsed year y, with `>` read for `>=`
year_test_strict(y, year_q) ==
    IF ~y.ok THEN FALSE
    ELSE IF Lower(year_q) = older THEN y.val < 2000
    ELSE IF IsDigitStr(year_q) THEN y.val = DigitsVal(year_q)
    ELSE IF StartsWith(year_q, <<">", "=">>) THEN Above(y.val, PyInt(Drop(year_q, 2)))
    ELSE IF StartsWith(year_q, <<"<", "=">>) THEN AtMost(y.val, PyInt(Drop(year_q, 2)))
    ELSE FALSE

\* the tests of lines 53-60, y being the outcome of int(float(m["year"])):
\* any exception inside the try gives False
year_test(y, year_q) ==
    IF ~y.ok THEN FALSE
    ELSE IF Lower(year_q) = older THEN y.val < 2000
    ELSE IF IsDigitStr(year_q) THEN y.val = DigitsVal(year_q)
    ELSE IF StartsWith(year_q, <<">", "=">>) THEN AtLeast(y.val, PyInt(Drop(year_q, 2)))
    ELSE IF StartsWith(year_q, <<"<", "=">>) THEN AtMost(y.val, PyInt(Drop(year_q, 2)))
    ELSE FALSE

\* safe_year_filter(m) with `>` read for `>=`
safe_year_filter_strict(year_text, year_q) ==
    year_test_strict(PyIntFloat(year_text), year_q)

\* safe_year_filter(m), m["year"] = year_text, for the filter text year_q
safe_year_filter(year_text, year_q) == year_test(PyIntFloat(year_text), year_q)

OrZero(r) == IF r.ok THEN r.val ELSE 0
\* safe_year(m) of the year sort: unparsable years count as 0
safe_year(m) == OrZero(PyIntFloat(m.year))

\* the filters of lines 45-64 applied to a list
Filtered(movies, title_q, genre_q, year_q) ==
    LET ByTitle(m) == title_q = <<>> \/ Contains(title_q, Lower(m.title))
        ByGenre(m) == genre_q = <<>> \/ Contains(genre_q, Lower(m.genres))
        ByYear(m) == year_q = <<>> \/ safe_year_filter(m.year, year_q)
        Keep(m) == ByTitle(m) /\ ByGenre(m) /\ ByYear(m)
    IN  SelectSeq(movies, Keep)

\* the sort key order of lines 68-78: is the key of a below the key of b
KeyLess(sort_by, a, b) ==
    IF sort_by = rating THEN a.avgRating < b.avgRating
    ELSE IF sort_by = year THEN safe_year(a) < safe_year(b)
    ELSE IF sort_by = title
    THEN StrLess(Lower(a.title), Lower(b.title))
    ELSE FALSE

\* does a come before b in the sorted list by its key alone
KeyBefore(sort_by, reverse, a, b) ==
    IF reverse THEN KeyLess(sort_by, b, a) ELSE KeyLess(sort_by, a, b)

\* list.sort(key=..., reverse=...): stable, equal keys keep their order
\* also when reverse=True
Sorted(movies, sort_by, reverse) ==
    LET Pos(i) == 1 + Cardinality({j \in DOMAIN movies :
                        \/ KeyBefore(sort_by, reverse, movies[j], movies[i])
                        \/ /\ ~KeyBefore(sort_by, reverse, movies[i], movies[j])
                           /\ j < i})
    IN  [p \in DOMAIN movies |-> movies[CHOOSE i \in DOMAIN movies : Pos(i) = p]]

\* movies[start:end] for 0 <= start <= end
PySlice(s, start, end) == SubSeq(s, Min(start, Len(s)) + 1, Min(end, Len(s)))

\* the list object `ref` names now holds `movies`
WriteBack(ALLM, SC, ref, movies) ==
    [ ALLM |-> IF ref.kind = "ALL_MOVIES" THEN movies ELSE ALLM,
      SC |-> IF ref.kind = "SAMPLE_CACHE"
             THEN [SC EXCEPT ![ref.k] = movies] ELSE SC,
      movies |-> movies ]

\* lines 67-78: movies.sort(...) sorts the list object `movies` names, in
\* place; the three sort keys are the only ones that sort
SortInPlace(ALLM, SC, ref, fresh, sort_by, order) ==
    WriteBack(ALLM, SC, ref,
              IF sort_by \in {rating, year, title}
              THEN Sorted(Deref(ALLM, SC, ref, fresh), sort_by, order = desc)
              ELSE Deref(ALLM, SC, ref, fresh))

\* lines 80-84: total, start, end and the page of the sorted list
Paginate(key, done) ==
    [ raised |-> FALSE, ALLM |-> done.ALLM, SC |-> done.SC,
      value |-> [ page_items |-> PySlice(done.movies, (key.page - 1) * key.per_page,
                                         (key.page - 1) * key.per_page + key.per_page),
                  total |-> Len(done.movies) ] ]

\* lines 44-84, `got` being the outcome of get_sample(sample): a filter
\* makes a new list, without one `movies` stays the cached list itself
FilterSortPaginate(key, got) ==
    IF key.title_q # <<>> \/ key.genre_q # <<>> \/ key.year_q # <<>>
    THEN Paginate(key,
             SortInPlace(got.ALLM, got.SC, RefNew,
                         Filtered(Deref(got.ALLM, got.SC, got.ref, <<>>),
                                  key.title_q, key.genre_q, key.year_q),
                         key.sort_by, key.order))
    ELSE Paginate(key,
             SortInPlace(got.ALLM, got.SC, got.ref, <<>>, key.sort_by, key.order))

\* slice_page when get_sample raised, or its body after get_sample
AfterSample(ALLM, SC, key, got) ==
    IF got.raised
    THEN [ raised |-> TRUE, ALLM |-> ALLM, SC |-> SC,
           value |-> [page_items |-> <<>>, total |-> 0] ]
    ELSE FilterSortPaginate(key, got)

\* the body of slice_page (lines 42-84): the caches after it and its value
slice_page(eng, draws, ALLM, SC, key) ==
    AfterSample(ALLM, SC, key, get_sample(eng, draws, ALLM, SC, key.sample))

(***************************************************************************)
(* The state after construction (app.py:17-21) and the requests.           *)
(***************************************************************************)
\* the {movieId, rating} objects a request body is made of; 99 is no
\* movieId of any rating file, 40 has ratings and no metadata
Pairs == { [movieId |-> 10, rating |-> 10], [movieId |-> 30, rating |-> 8],
           [movieId |-> 40, rating |-> 2], [movieId |-> 99, rating |-> 6] }

SeqsUpTo(S, n) == UNION {[1..k -> S] : k \in 0..n}

RatingLists == SeqsUpTo(Pairs, MaxList)

NoFilter == [applied |-> FALSE, year |-> <<>>, year_q |-> <<>>, keep |-> FALSE]

Idle ==
    /\ ALL_MOVIES = <<>>
    /\ SAMPLE_CACHE = <<>>
    /\ lru = <<>>
    /\ resp = [route |-> "none"]
    /\ call = NoCall
    /\ yf = NoFilter
    /\ th = <<>>
    /\ built = <<>>
    /\ rng = <<>>

InitRec ==
    /\ rec_engine \in {ItemCFRecommender(r, MoviesCsv) : r \in RatingFiles}
    /\ Idle

\* a call recommend_for_new_user(rating_list, top_n, min_rated), up to its
\* return or raise
RecommendCall ==
    /\ call = NoCall
    /\ \E rating_list \in RatingLists, top_n \in 0..MaxTopN,
          min_rated \in 0..MaxMinRated :
          \E preds \in {Preds(rec_engine, rating_list)} :
              \E order \in Argsort(preds) :
                  call' = recommend_for_new_user(rec_engine, rating_list, top_n,
                                                 min_rated, order)
    /\ UNCHANGED <<rec_engine, rng, ALL_MOVIES, SAMPLE_CACHE, lru, resp,
                   yf, th, built>>

\* the caller drops the result; scores, sim_sums, preds are garbage
RecommendDone ==
    /\ call # NoCall
    /\ call' = NoCall
    /\ UNCHANGED <<rec_engine, rng, ALL_MOVIES, SAMPLE_CACHE, lru, resp,
                   yf, th, built>>

NextRec == RecommendCall \/ RecommendDone

SpecRec == InitRec /\ [][NextRec]_vars

(***************************************************************************)
(* app.py: the lru_cache of slice_page and the route /api/movies.          *)
(***************************************************************************)
MaxCache == 3   \* capacity of the lru_cache (maxsize=1024 in app.py:36)
NoArg == <<>>   \* a query parameter the request does not carry

\* @lru_cache on a hit: the stored value is returned and its entry becomes
\* the most recently used
Hit(ALLM, SC, cache, i) ==
    [ raised |-> FALSE, ALLM |-> ALLM, SC |-> SC, value |-> cache[i].value,
      cache |-> Append([j \in 1..(Len(cache) - 1) |->
                           IF j < i THEN cache[j] ELSE cache[j + 1]],
                       cache[i]) ]

\* @lru_cache on a miss, r being the outcome of the body: its value is
\* stored, the least recently used entry of a full cache is dropped; an
\* exception stores nothing
Miss(cache, key, r) ==
    IF r.raised
    THEN [ raised |-> TRUE, ALLM |-> r.ALLM, SC |-> r.SC, value |-> r.value,
           cache |-> cache ]
    ELSE [ raised |-> FALSE, ALLM |-> r.ALLM, SC |-> r.SC, value |-> r.value,
           cache |-> Append(IF Len(cache) >= MaxCache THEN Tail(cache) ELSE cache,
                            [key |-> key, value |-> r.value]) ]

\* slice_page as decorated by @lru_cache(maxsize=...)
cached_slice_page(eng, draws, ALLM, SC, cache, key) ==
    IF \E i \in DOMAIN cache : cache[i].key = key
    THEN Hit(ALLM, SC, cache, CHOOSE i \in DOMAIN cache : cache[i].key = key)
    ELSE Miss(cache, key, slice_page(eng, draws, ALLM, SC, key))

\* request.args.get(name, default)
Arg(v, default) == IF v = NoArg THEN default ELSE v

\* the parameters of lines 92-99, page and per_page being the outcomes of
\* int(); either may have raised
Clamped(req, page, per_page) ==
    [ ok |-> page.ok /\ per_page.ok,
      key |-> [ sample   |-> Arg(req.sample, all),
                title_q  |-> Strip(Lower(req.search)),
                genre_q  |-> Strip(Lower(req.genre)),
                year_q   |-> Strip(req.year),
                sort_by  |-> Lower(Strip(Arg(req.sort, rating))),
                order    |-> Lower(Strip(Arg(req.order, desc))),
                page     |-> Max(page.val, 1),
                per_page |-> Max(Min(per_page.val, 200), 1) ] ]

Params(req) ==
    Clamped(req, PyInt(Arg(req.page, <<"1">>)), PyInt(Arg(req.per_page, <<"3", "0">>)))

Query(sample, search, genre, year_q, sort, order, page, per_page) ==
    [ sample |-> sample, search |-> search, genre |-> genre, year |-> year_q,
      sort |-> sort, order |-> order, page |-> page, per_page |-> per_page ]

\* the requests GET /api/movies of the model
Queries ==
    { Query(NoArg, <<>>, <<>>, <<>>, NoArg, NoArg, <<"1">>, <<"2">>),
      Query(all, <<>>, <<>>, <<>>, rating, desc, <<"2">>, <<"2">>),
      Query(all, <<>>, <<>>, <<>>, <<"T", "i", "t", "l", "e">>, asc, <<"1">>, <<"2">>),
      Query(all, <<>>, <<>>, <<>>, <<>>, desc, <<"1">>, <<"2">>),
      Query(all, <<"B", " ">>, <<>>, <<>>, title, desc, <<"0">>, <<"2", "0", "1">>),
      Query(all, <<>>, <<>>, <<">", "=", "2", "0", "0", "0">>, year, asc, <<"1">>, <<"1">>),
      Query(all, <<>>, <<"D", "r">>, <<>>, year, desc, <<"1">>, <<"2">>),
      Query(<<"2">>, <<>>, <<>>, <<>>, rating, asc, <<"1">>, <<"2">>),
      Query(<<"2">>, <<>>, <<>>, <<>>, title, desc, <<"1">>, <<"2">>),
      Query(<<"9">>, <<>>, <<>>, <<>>, rating, desc, <<"1">>, <<"2">>),
      Query(all, <<>>, <<>>, <<>>, rating, desc, <<"x">>, <<"2">>) }

\* GET /api/movies
movies_route ==
    \E req \in Queries :
      \E p \in {Params(req)} :
        \E r \in {cached_slice_page(rec_engine, rng, ALL_MOVIES, SAMPLE_CACHE, lru, p.key)} :
            IF ~p.ok \/ r.raised
            THEN /\ resp' = [route |-> "movies", status |-> 500]
                 /\ UNCHANGED <<rec_engine, rng, ALL_MOVIES, SAMPLE_CACHE, lru,
                                call, yf, th, built>>
            ELSE /\ ALL_MOVIES' = r.ALLM
                 /\ SAMPLE_CACHE' = r.SC
                 /\ lru' = r.cache
                 /\ resp' = [ route |-> "movies", status |-> 200,
                              movies |-> r.value.page_items,
                              page |-> p.key.page, per_page |-> p.key.per_page,
                              total |-> r.value.total,
                              totalPages |-> (r.value.total + p.key.per_page - 1)
                                                \div p.key.per_page ]
                 /\ UNCHANGED <<rec_engine, rng, call, yf, th, built>>

\* what default_rng(42).choice(movie_ids, size=k, replace=False) can be
Draws(movie_ids, k) ==
    {d \in [1..k -> Range(movie_ids)] : \A a, b \in 1..k : a # b => d[a] # d[b]}

SampleSizes == {2}

InitCat ==
    /\ rec_engine = ItemCFRecommender(RatingsA, MoviesCsv)
    /\ ALL_MOVIES = <<>>
    /\ SAMPLE_CACHE = <<>>
    /\ lru = <<>>
    /\ resp = [route |-> "none"]
    /\ call = NoCall
    /\ yf = NoFilter
    /\ th = <<>>
    /\ built = <<>>
    /\ rng \in [SampleSizes -> UNION {Draws(rec_engine.movie_ids, k) : k \in SampleSizes}]
    /\ \A k \in SampleSizes : Len(rng[k]) = k

NextCat == movies_route

SpecCat == InitCat /\ [][NextCat]_vars

(***************************************************************************)
(* safe_year_filter on its own: one record's year against one filter text. *)
(***************************************************************************)
\* year cells of the movie file with the integer Python reads from them
\* (parses = FALSE: int(float(.)) raises)
YearCells ==
    << [text |-> <<"1", "9", "9", "9">>,           parses |-> TRUE,  y |-> 1999],
       [text |-> <<"2", "0", "0", "0">>,           parses |-> TRUE,  y |-> 2000],
       [text |-> <<"2", "0", "0", "0", ".", "0">>, parses |-> TRUE,  y |-> 2000],
       [text |-> <<"1", "9", "9", "9", ".", "9">>, parses |-> TRUE,  y |-> 1999],
       [text |-> <<" ", "2", "0", "0", "1", " ">>, parses |-> TRUE,  y |-> 2001],
       [text |-> <<"1", "9", "9", "8">>,           parses |-> TRUE,  y |-> 1998],
       [text |-> <<"-", "5">>,                     parses |-> TRUE,  y |-> -5],
       [text |-> <<"n", "/", "a">>,                parses |-> FALSE, y |-> 0],
       [text |-> <<"1", "9", "9", "9", "a">>,      parses |-> FALSE, y |-> 0],
       [text |-> <<"1", ".", "9", ".", "9">>,      parses |-> FALSE, y |-> 0],
       [text |-> <<".">>,                          parses |-> FALSE, y |-> 0],
       [text |-> <<"n", "a", "n">>,                parses |-> FALSE, y |-> 0],
       [text |-> <<>>,                             parses |-> FALSE, y |-> 0] >>

\* filter texts with the form the year filter reads them as
YearFilters ==
    << [text |-> older,                                  form |-> "older", v |-> 0],
       [text |-> <<"O", "l", "d", "e", "r">>,            form |-> "older", v |-> 0],
       [text |-> <<"1", "9", "9", "9">>,                 form |-> "exact", v |-> 1999],
       [text |-> <<"2", "0", "0", "0">>,                 form |-> "exact", v |-> 2000],
       [text |-> <<">", "=", "2", "0", "0", "0">>,       form |-> ">=",    v |-> 2000],
       [text |-> <<">", "=", "1", "9", "9", "9">>,       form |-> ">=",    v |-> 1999],
       [text |-> <<"<", "=", "1", "9", "9", "9">>,       form |-> "<=",    v |-> 1999],
       [text |-> <<"<", "=", "2", "0", "0", "0">>,       form |-> "<=",    v |-> 2000],
       [text |-> <<">", "=", "x">>,                      form |-> "none",  v |-> 0],
       [text |-> <<"<", "=">>,                           form |-> "none",  v |-> 0],
       [text |-> <<">", "2", "0", "0", "0">>,            form |-> "none",  v |-> 0],
       [text |-> <<"x">>,                                form |-> "none",  v |-> 0] >>

InitYear ==
    /\ rec_engine = ItemCFRecommender(RatingsA, MoviesCsv)
    /\ Idle

\* safe_year_filter(m) is applied to one record under one filter text
ApplyYearFilter ==
    /\ ~yf.applied
    /\ \E c \in DOMAIN YearCells, f \in DOMAIN YearFilters :
           yf' = [ applied |-> TRUE, year |-> YearCells[c].text,
                   year_q |-> YearFilters[f].text,
                   keep |-> safe_year_filter(YearCells[c].text, YearFilters[f].text) ]
    /\ UNCHANGED <<rec_engine, rng, ALL_MOVIES, SAMPLE_CACHE, lru, resp, call,
                   th, built>>

\* the list comprehension goes on
YearFilterDone ==
    /\ yf.applied
    /\ yf' = NoFilter
    /\ UNCHANGED <<rec_engine, rng, ALL_MOVIES, SAMPLE_CACHE, lru, resp, call,
                   th, built>>

NextYear == ApplyYearFilter \/ YearFilterDone

SpecYear == InitYear /\ [][NextYear]_vars

(***************************************************************************)
(* get_sample under the threaded server (app.run: one thread a request):   *)
(* the statements of lines 25-34 of several requests interleave.  A list   *)
(* object is named by the number of the construction that made it.         *)
(***************************************************************************)
NThreads == 2

Names == {"all", "2"}
SampleOf(name) == IF name = "all" THEN all ELSE <<name>>

IdleThread == [pc |-> "idle", name |-> "", tmp |-> 0, ret |-> 0]

InitConc ==
    /\ rec_engine = ItemCFRecommender(RatingsA, MoviesCsv)
    /\ rng \in [SampleSizes -> UNION {Draws(rec_engine.movie_ids, k) : k \in SampleSizes}]
    /\ \A k \in SampleSizes : Len(rng[k]) = k
    /\ ALL_MOVIES = <<>>
    /\ SAMPLE_CACHE = <<>>
    /\ lru = <<>>
    /\ resp = [route |-> "none"]
    /\ call = NoCall
    /\ yf = NoFilter
    /\ th = [t \in 1..NThreads |-> IdleThread]
    /\ built = [count |-> [n \in Names |-> 0], holder |-> [n \in Names |-> 0]]

ConcFrame == UNCHANGED <<rec_engine, rng, lru, resp, call, yf>>

\* a request enters get_sample(sample)
Enter(t) ==
    /\ th[t].pc = "idle"
    /\ \E n \in Names : th' = [th EXCEPT ![t] = [IdleThread EXCEPT !.pc = "test", !.name = n]]
    /\ UNCHANGED <<ALL_MOVIES, SAMPLE_CACHE, built>>
    /\ ConcFrame

\* line 26, `if not ALL_MOVIES`, and line 32, `if k not in SAMPLE_CACHE`
Test(t) ==
    /\ th[t].pc = "test"
    /\ LET absent == IF th[t].name = "all" THEN ALL_MOVIES = <<>>
                     ELSE PyInt(SampleOf(th[t].name)).val \notin DOMAIN SAMPLE_CACHE
       IN  th' = [th EXCEPT ![t].pc = IF absent THEN "build" ELSE "return"]
    /\ UNCHANGED <<ALL_MOVIES, SAMPLE_CACHE, built>>
    /\ ConcFrame

\* the calls rec_engine.all_movies() of line 28 and
\* rec_engine.sample_movies(k) of line 33: a new list is constructed
Build(t) ==
    /\ th[t].pc = "build"
    /\ built' = [built EXCEPT !.count[th[t].name] = @ + 1]
    /\ th' = [th EXCEPT ![t].pc = "store", ![t].tmp = built.count[th[t].name] + 1]
    /\ UNCHANGED <<ALL_MOVIES, SAMPLE_CACHE>>
    /\ ConcFrame

\* the assignments of line 28, ALL_MOVIES = ..., and line 33,
\* SAMPLE_CACHE[k] = ...
Store(t) ==
    /\ th[t].pc = "store"
    /\ IF th[t].name = "all"
       THEN /\ ALL_MOVIES' = all_movies(rec_engine)
            /\ UNCHANGED SAMPLE_CACHE
       ELSE LET k == PyInt(SampleOf(th[t].name)).val
            IN  /\ SAMPLE_CACHE' =
                      [j \in DOMAIN SAMPLE_CACHE \cup {k} |->
                          IF j = k THEN sample_movies(rec_engine, rng[k])
                          ELSE SAMPLE_CACHE[j]]
                /\ UNCHANGED ALL_MOVIES
    /\ built' = [built EXCEPT !.holder[th[t].name] = th[t].tmp]
    /\ th' = [th EXCEPT ![t].pc = "return"]
    /\ ConcFrame

\* lines 30 and 34: the list now held is returned
Return(t) ==
    /\ th[t].pc = "return"
    /\ th' = [th EXCEPT ![t].pc = "returned", ![t].ret = built.holder[th[t].name]]
    /\ UNCHANGED <<ALL_MOVIES, SAMPLE_CACHE, built>>
    /\ ConcFrame

\* the request is answered
Leave(t) ==
    /\ th[t].pc = "returned"
    /\ th' = [th EXCEPT ![t] = IdleThread]
    /\ UNCHANGED <<ALL_MOVIES, SAMPLE_CACHE, built>>
    /\ ConcFrame

NextConc ==
    \E t \in 1..NThreads :
        Enter(t) \/ Test(t) \/ Build(t) \/ Store(t) \/ Return(t) \/ Leave(t)

SpecConc == InitConc /\ [][NextConc]_vars

(***************************************************************************)
(* Claims on recommend_for_new_user.                                       *)
(***************************************************************************)
Returned == call.raised = "none"
RatedIds == {call.rating_list[k].movieId : k \in DOMAIN call.rating_list}
ResultIds == {call.result[k].movieId : k \in DOMAIN call.result}
NItems == Len(rec_engine.movie_ids)
Unselected == (1..NItems) \ Range(call.top_idx)

\* C1: no item returned by recommend_for_new_user has a movieId of the
\* input rating list, whatever the catalog size and top_n.
C1_NoRatedItemReturned == Returned => ResultIds \cap RatedIds = {}

\* C2: at most top_n items are returned, and the result is shorter than
\* top_n only by the ranked items without metadata, or because the catalog
\* has fewer than top_n items.
C2_AtMostTopN ==
    Returned =>
        /\ Len(call.result) <= call.top_n
        /\ Len(call.result) =
              Min(call.top_n, NItems)
              - Cardinality({k \in DOMAIN call.top_idx :
                    rec_engine.idx2id[call.top_idx[k]] \notin DOMAIN rec_engine.movies})

\* C7: every item whose similarity denominator is 0 after the loop has the
\* predicted score 0 (never nan), also when every pair was skipped.
C7_ZeroDenominatorScoresZero ==
    Returned =>
        \A j \in DOMAIN call.sim_sums :
            call.sim_sums[j] = 0 =>
                /\ call.quotient[j] = Num(0)
                /\ j \notin RatedIdx(rec_engine, call.rating_list)
                       => call.preds[j] = Num(0)
                /\ \A k \in DOMAIN call.result :
                       call.result[k].movieId = rec_engine.idx2id[j]
                           => call.result[k].score \in {Num(0), NegInf}

\* C7 witness: a call that returned although every pair was skipped, so
\* that every denominator is 0.
C7_Witness ==
    /\ Returned
    /\ Len(call.rating_list) > 0
    /\ \A k \in DOMAIN call.rating_list :
           call.rating_list[k].movieId \notin DOMAIN rec_engine.id2idx
    /\ NItems > 1
    /\ \A j \in DOMAIN call.sim_sums : call.sim_sums[j] = 0 /\ call.quotient[j] = Num(0)

\* C8 as stated: descending by predicted score, and among equal scores the
\* lower item index first, in the selection and in the order.
C8_TiesLowerIndexFirst ==
    Returned =>
        /\ \A a, b \in DOMAIN call.top_idx :
               (a < b /\ call.preds[call.top_idx[a]] = call.preds[call.top_idx[b]])
                   => call.top_idx[a] < call.top_idx[b]
        /\ \A i \in Unselected, j \in Range(call.top_idx) :
               call.preds[i] = call.preds[j] => j < i

\* C8 amended: the selected items are ordered by descending predicted
\* score and no unselected item has a higher score than a selected one;
\* the returned items carry these scores in that order.
C8_DescendingByScore ==
    Returned =>
        /\ \A a, b \in DOMAIN call.top_idx :
               a < b => FloatLeq(call.preds[call.top_idx[b]], call.preds[call.top_idx[a]])
        /\ \A i \in Unselected, j \in Range(call.top_idx) :
               FloatLeq(call.preds[i], call.preds[j])
        /\ \A a, b \in DOMAIN call.result :
               a < b => FloatLeq(call.result[b].score, call.result[a].score)

\* C8 witness: a result of at least two items with different scores, and
\* two items of equal score of which one stayed outside.
C8_Witness ==
    /\ Returned
    /\ Len(call.result) >= 2
    /\ call.result[1].score # call.result[2].score
    /\ call.top_n > 0
    /\ \E i \in Unselected, j \in Range(call.top_idx) : call.preds[i] = call.preds[j]

(***************************************************************************)
(* Claims on the catalog query.                                            *)
(***************************************************************************)
Served == resp.route = "movies" /\ resp.status = 200
\* the parameter tuple of the last query served: its entry is the most
\* recently used one of the cache
LastKey == lru[Len(lru)].key

\* the value of slice_page for a parameter tuple when nothing was queried
\* before it
FirstValue(key) == slice_page(rec_engine, rng, <<>>, <<>>, key).value

\* the candidate set of a parameter tuple: the filters applied to the list
\* of its sample as built
Candidates(key) ==
    LET got == get_sample(rec_engine, rng, <<>>, <<>>, key.sample)
    IN  Filtered(Deref(got.ALLM, got.SC, got.ref, <<>>),
                 key.title_q, key.genre_q, key.year_q)

Ids(movies) == {movies[i].movieId : i \in DOMAIN movies}

\* the entry of the cache for a parameter tuple
Entry(key) == lru[CHOOSE i \in DOMAIN lru : lru[i].key = key]
Cached(key) == \E i \in DOMAIN lru : lru[i].key = key

RECURSIVE PagesUpTo(_, _)
\* the pages 1..n returned for the configuration of `key`, concatenated
PagesUpTo(key, n) ==
    IF n = 0 THEN <<>>
    ELSE PagesUpTo(key, n - 1) \o Entry([key EXCEPT !.page = n]).value.page_items

TotalPages(key) == (Entry(key).value.total + key.per_page - 1) \div key.per_page

\* the configurations of which every page 1..totalPages was returned
AllPagesReturned(key) ==
    /\ key.page = 1
    /\ Cached(key)
    /\ \A q \in 1..TotalPages(key) : Cached([key EXCEPT !.page = q])

\* C3: the pages 1..totalPages of a configuration, concatenated, hold every
\* item of the filtered candidate set exactly once, and each total is the
\* size of the candidate set, whatever was queried in between.
C3_PagesPartitionCandidates ==
    \A i \in DOMAIN lru :
        LET key == lru[i].key
            pages == PagesUpTo(key, TotalPages(key))
        IN  /\ lru[i].value.total = Len(Candidates(key))
            /\ AllPagesReturned(key) =>
                  /\ \A a, b \in DOMAIN pages :
                         a # b => pages[a].movieId # pages[b].movieId
                  /\ Ids(pages) = Ids(Candidates(key))

\* C4: the value served for a parameter tuple is the same after every
\* history of queries, cached or recomputed: it is the value the tuple has
\* when it is the first query.
C4_PureFunctionOfParameters ==
    Served =>
        /\ resp.movies = FirstValue(LastKey).page_items
        /\ resp.total = FirstValue(LastKey).total

\* C10: the list in ALL_MOVIES and each list in SAMPLE_CACHE keep the
\* elements and the order they were built with.
C10_CachedListsNeverChange ==
    /\ ALL_MOVIES \in {<<>>, all_movies(rec_engine)}
    /\ \A k \in DOMAIN SAMPLE_CACHE :
           SAMPLE_CACHE[k] = sample_movies(rec_engine, rng[k])

(***************************************************************************)
(* Claims on the rejection of short rating lists, the year filter and the  *)
(* lazy construction of the cached lists.                                  *)
(***************************************************************************)
\* C5: a call raises the insufficient-input error exactly when the raw
\* list, unknown movieIds counted, is shorter than min_rated, and no call,
\* rejected or not, changes the engine or the catalog caches.
C5_RejectsExactlyShortLists ==
    [][ /\ call' # NoCall =>
              (call'.raised = "ValueError"
                  <=> Len(call'.rating_list) < call'.min_rated)
        /\ rec_engine' = rec_engine
        /\ ALL_MOVIES' = ALL_MOVIES
        /\ SAMPLE_CACHE' = SAMPLE_CACHE
        /\ lru' = lru ]_vars

\* C5 witness: a rejected call whose list is one entry short and holds an
\* unknown movieId next to a known one.
C5_Witness ==
    /\ call.raised = "ValueError"
    /\ Len(call.rating_list) = call.min_rated - 1
    /\ \E a, b \in DOMAIN call.rating_list :
           /\ call.rating_list[a].movieId \in DOMAIN rec_engine.id2idx
           /\ call.rating_list[b].movieId \notin DOMAIN rec_engine.id2idx

CellOf(text) == YearCells[CHOOSE c \in DOMAIN YearCells : YearCells[c].text = text]
FilterOf(text) == YearFilters[CHOOSE f \in DOMAIN YearFilters : YearFilters[f].text = text]

\* C6: the year filter keeps a record exactly when its year parses to an
\* integer y and y = value (exact year), y < 2000 ("older"), y >= YYYY
\* (">=YYYY") or y <= YYYY ("<=YYYY"); an unparsable year is excluded.
C6_YearFilterForms ==
    yf.applied =>
        LET c == CellOf(yf.year)
            f == FilterOf(yf.year_q)
        IN  yf.keep <=>
                /\ c.parses
                /\ \/ f.form = "exact" /\ c.y = f.v
                   \/ f.form = "older" /\ c.y < 2000
                   \/ f.form = ">=" /\ c.y >= f.v
                   \/ f.form = "<=" /\ c.y <= f.v

\* C6 witness: the year 2000 is kept by ">=2000".
C6_Witness ==
    /\ yf.applied
    /\ yf.year = <<"2", "0", "0", "0">>
    /\ yf.year_q = <<">", "=", "2", "0", "0", "0">>
    /\ yf.keep

\* C9: each cached list is constructed at most once, and every request
\* gets the one list that was constructed.
C9_ConstructedOnce ==
    /\ \A n \in Names : built.count[n] <= 1
    /\ \A t \in 1..NThreads : th[t].pc = "returned" => th[t].ret = 1

====
